---- MODULE Spec2Model ----
(***************************************************************************)
(* State-machine model of the in-memory CRUD API of meu_coder:             *)
(*   app/api/endpoints/items.py, app/api/endpoints/users.py,               *)
(*   app/api/schemas/item.py,    app/api/schemas/user.py,                  *)
(*   app/middleware/error_handler.py.                                      *)
(*                                                                         *)
(* Python values: None is <<>>, any other value v is <<v>> (Some(v)), so   *)
(* that a field that may hold None has one TLA+ type.  A Python dict with  *)
(* string keys (a stored record, a model_dump) is a function on its keys;  *)
(* the two stores, which are dicts keyed by id whose iteration order is    *)
(* the insertion order, are sequences of [key, val] entries.               *)
(***************************************************************************)
EXTENDS Integers, Sequences, FiniteSets, TLC

VARIABLES
    items_db,           \* items.py:16   dict[int, dict], insertion ordered
    item_id_counter,    \* items.py:17
    users_db,           \* users.py:16
    user_id_counter,    \* users.py:17
    req,                \* the request handled last
    resp,               \* the response it was answered with
    issued,             \* history: per resource, the ids successful creates returned, in order
    deleted,            \* history: per resource, the ids successful deletes removed
    updates,            \* history: per resource, the number of updates applied
    fresh,              \* history: per resource, id -> body of the create that returned it,
                        \*          for the ids not updated or deleted since
    tasks,              \* the handler coroutines of the requests in flight
    loop                \* the task the event loop is running, 0 when it runs none

vars == <<items_db, item_id_counter, users_db, user_id_counter, req, resp,
          issued, deleted, updates, fresh, tasks, loop>>

(***************************************************************************)
(* Bounds of the model.                                                    *)
(***************************************************************************)
MaxCreates == 2         \* successful creates per resource in one run
MaxUpdates == 1         \* updates applied per resource in one run
MaxTasks == 2           \* requests in flight at once

(***************************************************************************)
(* Program constants.                                                      *)
(***************************************************************************)
NAME_MIN_LEN == 1
NAME_MAX_LEN == 100
DESC_MAX_LEN == 500
PAGE_SIZE_MAX == 100
USERNAME_MIN_LEN == 3
USERNAME_MAX_LEN == 50
PASSWORD_MIN_LEN == 8
PASSWORD_MAX_LEN == 100
HTTP_200_OK == 200
HTTP_201_CREATED == 201
HTTP_204_NO_CONTENT == 204
HTTP_400_BAD_REQUEST == 400
HTTP_404_NOT_FOUND == 404
HTTP_422_UNPROCESSABLE_ENTITY == 422

(***************************************************************************)
(* Python values and dicts.                                                *)
(***************************************************************************)
None == <<>>
Some(v) == <<v>>
Val(o) == o[1]

EmptyDict == <<>>

\* dict.update(u): keys of u are set, the other keys keep their values
DictUpdate(d, u) ==
    [k \in DOMAIN d \cup DOMAIN u |-> IF k \in DOMAIN u THEN u[k] ELSE d[k]]

\* k in db
Has(db, k) == \E i \in 1..Len(db) : db[i].key = k

\* db[k]
Get(db, k) == db[CHOOSE i \in 1..Len(db) : db[i].key = k].val

\* db[k] = v : a new key goes last, an existing key keeps its place
Put(db, k, v) ==
    IF Has(db, k)
    THEN [i \in 1..Len(db) |-> IF db[i].key = k THEN [key |-> k, val |-> v] ELSE db[i]]
    ELSE Append(db, [key |-> k, val |-> v])

\* variant: the entry inserted first is removed, whatever the key
DelOldest(db, k) == Tail(db)

\* del db[k]
Del(db, k) ==
    LET keep(e) == e.key # k IN SelectSeq(db, keep)

\* list(db.values())
Values(db) == [i \in 1..Len(db) |-> db[i].val]

Min(a, b) == IF a <= b THEN a ELSE b

\* variant: the end index is taken as inclusive
SliceInclusive(s, start, end) == SubSeq(s, start + 1, Min(end + 1, Len(s)))

\* s[start:end] for 0 <= start <= end
Slice(s, start, end) == SubSeq(s, start + 1, Min(end, Len(s)))

\* datetime.now(): some instant
Times == {"t"}

(***************************************************************************)
(* Requests and responses.                                                 *)
(***************************************************************************)
Request(op, id, payload, page, page_size, available_only) ==
    [op |-> op, id |-> id, payload |-> payload, page |-> page,
     page_size |-> page_size, available_only |-> available_only]

BodyRequest(op, id, payload) == Request(op, id, payload, 0, 0, FALSE)
IdRequest(op, id) == Request(op, id, EmptyDict, 0, 0, FALSE)
ListRequest(op, page, page_size, available_only) ==
    Request(op, 0, EmptyDict, page, page_size, available_only)

Response(status, detail, record, records, total, page, page_size) ==
    [status |-> status, detail |-> detail, record |-> record, records |-> records,
     total |-> total, page |-> page, page_size |-> page_size]

\* JSONResponse(status_code, {"detail": detail}) and HTTPException(status_code, detail)
ErrorResponse(status, detail) == Response(status, detail, None, <<>>, 0, 0, 0)
\* a response whose body is one record
RecordResponse(status, record) == Response(status, "", Some(record), <<>>, 0, 0, 0)
\* ItemList(...) / UserList(...)
ListResponse(records, total, page, page_size) ==
    Response(HTTP_200_OK, "", None, records, total, page, page_size)
\* 204, no body
NoContent == Response(HTTP_204_NO_CONTENT, "", None, <<>>, 0, 0, 0)

\* validation_exception_handler: RequestValidationError -> 422
validation_exception_handler ==
    ErrorResponse(HTTP_422_UNPROCESSABLE_ENTITY, "Validation error")

\* value_error_handler: pydantic's ValidationError, raised when a response model
\* is built from a stored dict, is a ValueError -> 400 with str(exc)
value_error_handler(model) ==
    ErrorResponse(HTTP_400_BAD_REQUEST, "validation error for " \o model)

(***************************************************************************)
(* Item schemas (app/api/schemas/item.py).                                 *)
(***************************************************************************)
ItemUpdateFields == {"name", "description", "price", "is_available"}
ItemResponseFields ==
    {"name", "description", "price", "is_available", "id", "created_at", "updated_at"}

\* name: str = Field(..., min_length=1, max_length=100)
NameOk(v) == v # None /\ Len(Val(v)) >= NAME_MIN_LEN /\ Len(Val(v)) <= NAME_MAX_LEN
\* description: Optional[str] = Field(None, max_length=500)
DescriptionOk(v) == v = None \/ Len(Val(v)) <= DESC_MAX_LEN
\* variant: the bound is ge=0
PriceOkZeroAllowed(v) == v # None /\ Val(v) >= 0

\* price: float = Field(..., gt=0)
PriceOk(v) == v # None /\ Val(v) > 0
\* is_available: bool
AvailableOk(v) == v # None

\* ItemCreate(ItemBase): the body of POST /items passes validation
ItemCreateValid(p) ==
    /\ "name" \in DOMAIN p /\ NameOk(p["name"])
    /\ "description" \in DOMAIN p => DescriptionOk(p["description"])
    /\ "price" \in DOMAIN p /\ PriceOk(p["price"])
    /\ "is_available" \in DOMAIN p => AvailableOk(p["is_available"])

\* variant: is_available of the body is dropped, every item is created available
ItemCreateAlwaysAvailable(p) ==
    [name |-> p["name"],
     description |-> IF "description" \in DOMAIN p THEN p["description"] ELSE None,
     price |-> p["price"],
     is_available |-> Some(TRUE)]

\* the validated ItemCreate: unset fields take their defaults
ItemCreate(p) ==
    [name |-> p["name"],
     description |-> IF "description" \in DOMAIN p THEN p["description"] ELSE None,
     price |-> p["price"],
     is_available |-> IF "is_available" \in DOMAIN p THEN p["is_available"] ELSE Some(TRUE)]

\* ItemUpdate: every field Optional, so an explicit null passes
ItemUpdateValid(p) ==
    /\ "name" \in DOMAIN p => (p["name"] = None \/ NameOk(p["name"]))
    /\ "description" \in DOMAIN p => DescriptionOk(p["description"])
    /\ "price" \in DOMAIN p => (p["price"] = None \/ PriceOk(p["price"]))

\* variant: model_dump() without exclude_unset, unset fields dumped as None
ItemUpdateDumpAll(p) == [k \in ItemUpdateFields |-> IF k \in DOMAIN p THEN p[k] ELSE None]

\* ItemUpdate.model_dump(exclude_unset=True): the fields of the schema that the
\* body supplied, and no others
ItemUpdateDump(p) == [k \in DOMAIN p \cap ItemUpdateFields |-> p[k]]

\* ItemResponse(**d) can be built: the ItemBase constraints hold of d
ItemResponseValid(d) ==
    /\ NameOk(d["name"])
    /\ DescriptionOk(d["description"])
    /\ PriceOk(d["price"])
    /\ AvailableOk(d["is_available"])

\* ItemResponse(**d): the fields of ItemResponse, other keys ignored
ItemResponse(d) == [k \in ItemResponseFields |-> d[k]]

(***************************************************************************)
(* User schemas (app/api/schemas/user.py).  An email address is the pair   *)
(* of its local part and its domain; EmailStr accepts it when neither is   *)
(* empty.                                                                  *)
(***************************************************************************)
UserCreateFields == {"email", "username", "full_name", "password"}
UserUpdateFields == {"email", "full_name", "password"}
UserResponseFields ==
    {"email", "username", "full_name", "id", "is_active", "created_at", "updated_at"}

Email(local, domain) == [local |-> local, domain |-> domain]

\* email: EmailStr
EmailOk(v) == v # None /\ Val(v).local # "" /\ Val(v).domain # ""
\* username: str = Field(..., min_length=3, max_length=50)
UsernameOk(v) ==
    v # None /\ Len(Val(v)) >= USERNAME_MIN_LEN /\ Len(Val(v)) <= USERNAME_MAX_LEN
\* password: str = Field(..., min_length=8, max_length=100)
PasswordOk(v) ==
    v # None /\ Len(Val(v)) >= PASSWORD_MIN_LEN /\ Len(Val(v)) <= PASSWORD_MAX_LEN

\* UserCreate(UserBase): the body of POST /users passes validation
UserCreateValid(p) ==
    /\ "email" \in DOMAIN p /\ EmailOk(p["email"])
    /\ "username" \in DOMAIN p /\ UsernameOk(p["username"])
    /\ "password" \in DOMAIN p /\ PasswordOk(p["password"])

\* the validated UserCreate: an unset full_name is None
UserCreate(p) ==
    [email |-> p["email"],
     username |-> p["username"],
     full_name |-> IF "full_name" \in DOMAIN p THEN p["full_name"] ELSE None,
     password |-> p["password"]]

\* UserUpdate: every field Optional, so an explicit null passes
UserUpdateValid(p) ==
    /\ "email" \in DOMAIN p => (p["email"] = None \/ EmailOk(p["email"]))
    /\ "password" \in DOMAIN p => (p["password"] = None \/ PasswordOk(p["password"]))

\* variant: the dump carries every key of the body
UserUpdateDumpAnyKey(p) == p

\* UserUpdate.model_dump(exclude_unset=True)
UserUpdateDump(p) == [k \in DOMAIN p \cap UserUpdateFields |-> p[k]]

\* UserResponse(**d) can be built: the UserBase constraints hold of d
UserResponseValid(d) == EmailOk(d["email"]) /\ UsernameOk(d["username"])

\* variant: the stored dict is returned as it is
UserResponseRaw(d) == d

\* UserResponse(**d): the fields of UserResponse; any other key of d, such as
\* "password", is ignored
UserResponse(d) == [k \in UserResponseFields |-> d[k]]

(***************************************************************************)
(* Inputs of the model: request bodies, path and query parameters.         *)
(* A body is built from one choice per field: Unset (the key is not in the *)
(* body) or Given(v) with v None (an explicit null) or Some(x).            *)
(***************************************************************************)
Unset == <<>>
Given(v) == <<v>>

ItemBody(name, description, price, is_available) ==
    LET c == [name |-> name, description |-> description,
              price |-> price, is_available |-> is_available]
    IN  [k \in {f \in ItemUpdateFields : c[f] # Unset} |-> c[k][1]]

RECURSIVE Repeat(_, _)
Repeat(s, n) == IF n = 0 THEN "" ELSE s \o Repeat(s, n - 1)

\* bodies ItemCreate accepts
ItemCreateAccepted ==
    {ItemBody(Given(Some("a")), Unset, Given(Some(1)), Unset),
     ItemBody(Given(Some("b")), Given(Some("d")), Given(Some(2)), Given(Some(FALSE)))}

\* bodies ItemCreate rejects, one violated constraint each
ItemCreateRejected ==
    {ItemBody(Given(Some("a")), Unset, Given(Some(0)), Unset),
     ItemBody(Given(Some("a")), Unset, Given(Some(-1)), Unset),
     ItemBody(Given(Some("a")), Unset, Unset, Unset),
     ItemBody(Given(Some("")), Unset, Given(Some(1)), Unset),
     ItemBody(Given(Some(Repeat("x", NAME_MAX_LEN + 1))), Unset, Given(Some(1)), Unset),
     ItemBody(Unset, Unset, Given(Some(1)), Unset),
     ItemBody(Given(Some("a")), Unset, Given(Some(1)), Given(None))}

ItemCreateBodies == ItemCreateAccepted \cup ItemCreateRejected

\* bodies ItemUpdate accepts: the empty body, each field alone with a value and
\* with an explicit null, and all fields at once
ItemUpdateAccepted ==
    {ItemBody(Unset, Unset, Unset, Unset),
     ItemBody(Given(Some("c")), Unset, Unset, Unset),
     ItemBody(Unset, Unset, Given(Some(3)), Unset),
     ItemBody(Unset, Unset, Unset, Given(Some(FALSE))),
     ItemBody(Given(None), Unset, Unset, Unset),
     ItemBody(Unset, Given(None), Unset, Unset),
     ItemBody(Unset, Unset, Given(None), Unset),
     ItemBody(Unset, Unset, Unset, Given(None)),
     ItemBody(Given(Some("c")), Given(Some("e")), Given(Some(3)), Given(Some(FALSE)))}

\* bodies ItemUpdate rejects
ItemUpdateRejected ==
    {ItemBody(Given(Some("")), Unset, Unset, Unset),
     ItemBody(Unset, Unset, Given(Some(0)), Unset)}

ItemUpdateBodies == ItemUpdateAccepted \cup ItemUpdateRejected

UserBody(email, username, full_name, password) ==
    LET c == [email |-> email, username |-> username,
              full_name |-> full_name, password |-> password]
    IN  [k \in {f \in UserCreateFields : c[f] # Unset} |-> c[k][1]]

EmailA == Given(Some(Email("a", "x.org")))
EmailB == Given(Some(Email("b", "x.org")))
Alice == Given(Some("alice"))
Bob == Given(Some("bob"))
Password == Given(Some("password"))

\* bodies UserCreate accepts: two users, and the two that take the username of
\* one and the email of the other
UserCreateAccepted ==
    {UserBody(EmailA, Alice, Unset, Password),
     UserBody(EmailB, Bob, Given(Some("Bob B")), Password),
     UserBody(EmailB, Alice, Unset, Password),
     UserBody(EmailA, Bob, Unset, Password)}

\* bodies UserCreate rejects, one violated constraint each
UserCreateRejected ==
    {UserBody(Given(Some(Email("invalid-email", ""))), Alice, Unset, Password),
     UserBody(Unset, Alice, Unset, Password),
     UserBody(EmailA, Given(Some("al")), Unset, Password),
     UserBody(EmailA, Given(Some(Repeat("x", USERNAME_MAX_LEN + 1))), Unset, Password),
     UserBody(EmailA, Alice, Unset, Given(Some("short"))),
     UserBody(EmailA, Alice, Unset, Given(Some(Repeat("x", PASSWORD_MAX_LEN + 1)))),
     UserBody(EmailA, Alice, Unset, Unset)}

UserCreateBodies == UserCreateAccepted \cup UserCreateRejected

\* bodies UserUpdate accepts: the empty body, each field alone with a value and
\* with an explicit null, all fields at once, and a body with the key
\* "username", which UserUpdate does not declare and so ignores
UserUpdateAccepted ==
    {UserBody(Unset, Unset, Unset, Unset),
     UserBody(EmailB, Unset, Unset, Unset),
     UserBody(Unset, Unset, Given(Some("New Name")), Unset),
     UserBody(Unset, Unset, Unset, Given(Some("newpassword"))),
     UserBody(Given(None), Unset, Unset, Unset),
     UserBody(Unset, Unset, Given(None), Unset),
     UserBody(Unset, Unset, Unset, Given(None)),
     UserBody(EmailB, Unset, Given(Some("New Name")), Given(Some("newpassword"))),
     UserBody(Unset, Bob, Unset, Unset)}

\* bodies UserUpdate rejects
UserUpdateRejected ==
    {UserBody(Given(Some(Email("invalid-email", ""))), Unset, Unset, Unset),
     UserBody(Unset, Unset, Unset, Given(Some("short")))}

UserUpdateBodies == UserUpdateAccepted \cup UserUpdateRejected

\* path parameter: every id a create can hand out (an id is one that was never
\* assigned until the create that assigns it)
Ids == 1..MaxCreates

Pages == 0..(MaxCreates + 1)
PageSizes == {0, 1, 2, PAGE_SIZE_MAX + 1}

(***************************************************************************)
(* The history of fresh records.                                           *)
(***************************************************************************)
Record(f, id, body) == [k \in DOMAIN f \cup {id} |-> IF k = id THEN body ELSE f[k]]
Forget(f, id) == [k \in DOMAIN f \ {id} |-> f[k]]

(***************************************************************************)
(* Item endpoints (app/api/endpoints/items.py).                            *)
(***************************************************************************)
ItemNotFound == ErrorResponse(HTTP_404_NOT_FOUND, "Item with id {item_id} not found")

\* the response of a handler that ends in `return ItemResponse(**item_data)`
ReturnItem(status, item_data) ==
    IF ItemResponseValid(item_data)
    THEN RecordResponse(status, ItemResponse(item_data))
    ELSE value_error_handler("ItemResponse")

\* variant: the id is taken from the size of the store
NewItemIdFromSize == Len(items_db) + 1

\* "id": item_id_counter
NewItemId == item_id_counter

\* POST /items
create_item(body) ==
    /\ req' = BodyRequest("create_item", 0, body)
    /\ IF ~ItemCreateValid(body)
       THEN /\ resp' = validation_exception_handler
            /\ UNCHANGED <<items_db, item_id_counter, issued, fresh>>
       ELSE /\ Len(issued.items) < MaxCreates
            /\ \E now \in Times :
                 LET item == ItemCreate(body)
                     item_data == [id |-> NewItemId,
                                   name |-> item.name,
                                   description |-> item.description,
                                   price |-> item.price,
                                   is_available |-> item.is_available,
                                   created_at |-> now,
                                   updated_at |-> None]
                 IN  /\ items_db' = Put(items_db, NewItemId, item_data)
                     /\ item_id_counter' = item_id_counter + 1
                     /\ resp' = ReturnItem(HTTP_201_CREATED, item_data)
                     /\ issued' = [issued EXCEPT !.items = Append(@, item_data.id)]
                     /\ fresh' = [fresh EXCEPT !.items = Record(@, item_data.id, body)]
    /\ UNCHANGED <<users_db, user_id_counter, deleted, updates>>

\* item["is_available"] as a condition: None and False are falsy
Truthy(v) == v # None /\ Val(v) = TRUE

\* [item for item in all_items if item["is_available"]]
AvailableItems(all_items) ==
    LET available(item) == Truthy(item["is_available"]) IN SelectSeq(all_items, available)

\* the body of get_items, after the query parameters passed validation
ItemPage(db, page, page_size, available_only) ==
    LET values == Values(db)
        all_items == IF available_only THEN AvailableItems(values) ELSE values
        total == Len(all_items)
        start == (page - 1) * page_size
        end == start + page_size
        paginated_items == Slice(all_items, start, end)
    IN  IF \A i \in 1..Len(paginated_items) : ItemResponseValid(paginated_items[i])
        THEN ListResponse([i \in 1..Len(paginated_items) |-> ItemResponse(paginated_items[i])],
                          total, page, page_size)
        ELSE value_error_handler("ItemResponse")

\* page: int = Query(1, ge=1); page_size: int = Query(10, ge=1, le=100)
PageQueryValid(page, page_size) ==
    page >= 1 /\ page_size >= 1 /\ page_size <= PAGE_SIZE_MAX

\* GET /items
get_items(page, page_size, available_only) ==
    /\ req' = ListRequest("get_items", page, page_size, available_only)
    /\ resp' = IF PageQueryValid(page, page_size)
               THEN ItemPage(items_db, page, page_size, available_only)
               ELSE validation_exception_handler
    /\ UNCHANGED <<items_db, item_id_counter, users_db, user_id_counter,
                   issued, deleted, updates, fresh>>

\* GET /items/{item_id}
get_item(item_id) ==
    /\ req' = IdRequest("get_item", item_id)
    /\ resp' = IF ~Has(items_db, item_id)
               THEN ItemNotFound
               ELSE ReturnItem(HTTP_200_OK, Get(items_db, item_id))
    /\ UNCHANGED <<items_db, item_id_counter, users_db, user_id_counter,
                   issued, deleted, updates, fresh>>

\* PUT /items/{item_id}
update_item(item_id, body) ==
    /\ req' = BodyRequest("update_item", item_id, body)
    /\ IF ~ItemUpdateValid(body)
       THEN /\ resp' = validation_exception_handler
            /\ UNCHANGED <<items_db, updates, fresh>>
       ELSE IF ~Has(items_db, item_id)
       THEN /\ resp' = ItemNotFound
            /\ UNCHANGED <<items_db, updates, fresh>>
       ELSE /\ updates.items < MaxUpdates
            /\ updates' = [updates EXCEPT !.items = @ + 1]
            /\ fresh' = [fresh EXCEPT !.items = Forget(@, item_id)]
            /\ \E now \in Times :
                 LET update_data == ItemUpdateDump(body)
                     item_data == [DictUpdate(Get(items_db, item_id), update_data)
                                      EXCEPT !["updated_at"] = Some(now)]
                 IN  /\ items_db' = Put(items_db, item_id, item_data)
                     /\ resp' = ReturnItem(HTTP_200_OK, item_data)
    /\ UNCHANGED <<item_id_counter, users_db, user_id_counter, issued, deleted>>

\* DELETE /items/{item_id}
delete_item(item_id) ==
    /\ req' = IdRequest("delete_item", item_id)
    /\ IF ~Has(items_db, item_id)
       THEN /\ resp' = ItemNotFound
            /\ UNCHANGED <<items_db, deleted, fresh>>
       ELSE /\ items_db' = Del(items_db, item_id)
            /\ resp' = NoContent
            /\ deleted' = [deleted EXCEPT !.items = @ \cup {item_id}]
            /\ fresh' = [fresh EXCEPT !.items = Forget(@, item_id)]
    /\ UNCHANGED <<item_id_counter, users_db, user_id_counter, issued, updates>>

(***************************************************************************)
(* User endpoints (app/api/endpoints/users.py).                            *)
(***************************************************************************)
UserNotFound == ErrorResponse(HTTP_404_NOT_FOUND, "User with id {user_id} not found")

\* the response of a handler that ends in `return UserResponse(**user_data)`
ReturnUser(status, user_data) ==
    IF UserResponseValid(user_data)
    THEN RecordResponse(status, UserResponse(user_data))
    ELSE value_error_handler("UserResponse")

\* variant: the scan compares the email only
RECURSIVE ScanUsersEmailOnly(_, _, _)
ScanUsersEmailOnly(existing, i, user) ==
    IF i > Len(existing) THEN ""
    ELSE IF existing[i]["email"] = user.email THEN "Email already exists"
    ELSE ScanUsersEmailOnly(existing, i + 1, user)

\* variant: every stored username is compared before any stored email
ScanUsersUsernameFirst(existing, i, user) ==
    IF \E j \in i..Len(existing) : existing[j]["username"] = user.username
    THEN "Username already exists"
    ELSE IF \E j \in i..Len(existing) : existing[j]["email"] = user.email
    THEN "Email already exists"
    ELSE ""

\* for existing_user in users_db.values(): the detail of the first HTTPException
\* raised from position i on, "" when the loop ends without one
RECURSIVE ScanUsers(_, _, _)
ScanUsers(existing, i, user) ==
    IF i > Len(existing) THEN ""
    ELSE IF existing[i]["username"] = user.username THEN "Username already exists"
    ELSE IF existing[i]["email"] = user.email THEN "Email already exists"
    ELSE ScanUsers(existing, i + 1, user)

\* "id": user_id_counter
NewUserId == user_id_counter

\* POST /users
create_user(body) ==
    /\ req' = BodyRequest("create_user", 0, body)
    /\ IF ~UserCreateValid(body)
       THEN /\ resp' = validation_exception_handler
            /\ UNCHANGED <<users_db, user_id_counter, issued, fresh>>
       ELSE LET user == UserCreate(body)
                conflict == ScanUsers(Values(users_db), 1, user)
            IN  IF conflict # ""
                THEN /\ resp' = ErrorResponse(HTTP_400_BAD_REQUEST, conflict)
                     /\ UNCHANGED <<users_db, user_id_counter, issued, fresh>>
                ELSE /\ Len(issued.users) < MaxCreates
                     /\ \E now \in Times :
                          LET user_data == [id |-> NewUserId,
                                            email |-> user.email,
                                            username |-> user.username,
                                            full_name |-> user.full_name,
                                            is_active |-> Some(TRUE),
                                            created_at |-> now,
                                            updated_at |-> None]
                          IN  /\ users_db' = Put(users_db, NewUserId, user_data)
                              /\ user_id_counter' = user_id_counter + 1
                              /\ resp' = ReturnUser(HTTP_201_CREATED, user_data)
                              /\ issued' = [issued EXCEPT !.users = Append(@, user_data.id)]
                              /\ fresh' = [fresh EXCEPT !.users = Record(@, user_data.id, body)]
    /\ UNCHANGED <<items_db, item_id_counter, deleted, updates>>

\* the body of get_users, after the query parameters passed validation
UserPage(db, page, page_size) ==
    LET all_users == Values(db)
        total == Len(all_users)
        start == (page - 1) * page_size
        end == start + page_size
        paginated_users == Slice(all_users, start, end)
    IN  IF \A i \in 1..Len(paginated_users) : UserResponseValid(paginated_users[i])
        THEN ListResponse([i \in 1..Len(paginated_users) |-> UserResponse(paginated_users[i])],
                          total, page, page_size)
        ELSE value_error_handler("UserResponse")

\* GET /users
get_users(page, page_size) ==
    /\ req' = ListRequest("get_users", page, page_size, FALSE)
    /\ resp' = IF PageQueryValid(page, page_size)
               THEN UserPage(users_db, page, page_size)
               ELSE validation_exception_handler
    /\ UNCHANGED <<items_db, item_id_counter, users_db, user_id_counter,
                   issued, deleted, updates, fresh>>

\* GET /users/{user_id}
get_user(user_id) ==
    /\ req' = IdRequest("get_user", user_id)
    /\ resp' = IF ~Has(users_db, user_id)
               THEN UserNotFound
               ELSE ReturnUser(HTTP_200_OK, Get(users_db, user_id))
    /\ UNCHANGED <<items_db, item_id_counter, users_db, user_id_counter,
                   issued, deleted, updates, fresh>>

\* variant: the update re-checks the email against the other stored users, as
\* create_user does
update_user_unique_email(user_id, body) ==
    /\ req' = BodyRequest("update_user", user_id, body)
    /\ IF ~UserUpdateValid(body)
       THEN /\ resp' = validation_exception_handler
            /\ UNCHANGED <<users_db, updates, fresh>>
       ELSE IF ~Has(users_db, user_id)
       THEN /\ resp' = UserNotFound
            /\ UNCHANGED <<users_db, updates, fresh>>
       ELSE IF /\ "email" \in DOMAIN body
               /\ \E i \in 1..Len(users_db) :
                    users_db[i].key # user_id /\ users_db[i].val["email"] = body["email"]
       THEN /\ resp' = ErrorResponse(HTTP_400_BAD_REQUEST, "Email already exists")
            /\ UNCHANGED <<users_db, updates, fresh>>
       ELSE /\ updates.users < MaxUpdates
            /\ updates' = [updates EXCEPT !.users = @ + 1]
            /\ fresh' = [fresh EXCEPT !.users = Forget(@, user_id)]
            /\ \E now \in Times :
                 LET update_data == UserUpdateDump(body)
                     user_data == [DictUpdate(Get(users_db, user_id), update_data)
                                      EXCEPT !["updated_at"] = Some(now)]
                 IN  /\ users_db' = Put(users_db, user_id, user_data)
                     /\ resp' = ReturnUser(HTTP_200_OK, user_data)
    /\ UNCHANGED <<user_id_counter, items_db, item_id_counter, issued, deleted>>

\* PUT /users/{user_id}
update_user(user_id, body) ==
    /\ req' = BodyRequest("update_user", user_id, body)
    /\ IF ~UserUpdateValid(body)
       THEN /\ resp' = validation_exception_handler
            /\ UNCHANGED <<users_db, updates, fresh>>
       ELSE IF ~Has(users_db, user_id)
       THEN /\ resp' = UserNotFound
            /\ UNCHANGED <<users_db, updates, fresh>>
       ELSE /\ updates.users < MaxUpdates
            /\ updates' = [updates EXCEPT !.users = @ + 1]
            /\ fresh' = [fresh EXCEPT !.users = Forget(@, user_id)]
            /\ \E now \in Times :
                 LET update_data == UserUpdateDump(body)
                     user_data == [DictUpdate(Get(users_db, user_id), update_data)
                                      EXCEPT !["updated_at"] = Some(now)]
                 IN  /\ users_db' = Put(users_db, user_id, user_data)
                     /\ resp' = ReturnUser(HTTP_200_OK, user_data)
    /\ UNCHANGED <<user_id_counter, items_db, item_id_counter, issued, deleted>>

\* DELETE /users/{user_id}
delete_user(user_id) ==
    /\ req' = IdRequest("delete_user", user_id)
    /\ IF ~Has(users_db, user_id)
       THEN /\ resp' = UserNotFound
            /\ UNCHANGED <<users_db, deleted, fresh>>
       ELSE /\ users_db' = Del(users_db, user_id)
            /\ resp' = NoContent
            /\ deleted' = [deleted EXCEPT !.users = @ \cup {user_id}]
            /\ fresh' = [fresh EXCEPT !.users = Forget(@, user_id)]
    /\ UNCHANGED <<user_id_counter, items_db, item_id_counter, issued, updates>>

(***************************************************************************)
(* The application: requests are handled one at a time.                    *)
(***************************************************************************)
NoRequest == Request("none", 0, EmptyDict, 0, 0, FALSE)

Tasks == 1..MaxTasks

\* a task no request was handed to yet
IdleTask ==
    [op |-> "none", pc |-> "idle", body |-> EmptyDict, data |-> None,
     resp |-> NoContent, overlapped |-> FALSE]

Init ==
    /\ items_db = <<>>
    /\ item_id_counter = 1
    /\ users_db = <<>>
    /\ user_id_counter = 1
    /\ req = NoRequest
    /\ resp = NoContent
    /\ issued = [items |-> <<>>, users |-> <<>>]
    /\ deleted = [items |-> {}, users |-> {}]
    /\ updates = [items |-> 0, users |-> 0]
    /\ fresh = [items |-> EmptyDict, users |-> EmptyDict]
    /\ tasks = [t \in Tasks |-> IdleTask]
    /\ loop = 0

CreateItem ==
    /\ \E body \in ItemCreateBodies : create_item(body)
    /\ UNCHANGED <<tasks, loop>>
GetItems ==
    /\ \E page \in Pages, page_size \in PageSizes, available_only \in BOOLEAN :
                get_items(page, page_size, available_only)
    /\ UNCHANGED <<tasks, loop>>
GetItem ==
    /\ \E item_id \in Ids : get_item(item_id)
    /\ UNCHANGED <<tasks, loop>>
UpdateItem ==
    /\ \E item_id \in Ids, body \in ItemUpdateBodies : update_item(item_id, body)
    /\ UNCHANGED <<tasks, loop>>
DeleteItem ==
    /\ \E item_id \in Ids : delete_item(item_id)
    /\ UNCHANGED <<tasks, loop>>

ItemNext == CreateItem \/ GetItems \/ GetItem \/ UpdateItem \/ DeleteItem

ItemSpec == Init /\ [][ItemNext]_vars

CreateUser ==
    /\ \E body \in UserCreateBodies : create_user(body)
    /\ UNCHANGED <<tasks, loop>>
GetUsers ==
    /\ \E page \in Pages, page_size \in PageSizes : get_users(page, page_size)
    /\ UNCHANGED <<tasks, loop>>
GetUser ==
    /\ \E user_id \in Ids : get_user(user_id)
    /\ UNCHANGED <<tasks, loop>>
UpdateUser ==
    /\ \E user_id \in Ids, body \in UserUpdateBodies : update_user(user_id, body)
    /\ UNCHANGED <<tasks, loop>>
DeleteUser ==
    /\ \E user_id \in Ids : delete_user(user_id)
    /\ UNCHANGED <<tasks, loop>>

UserNext == CreateUser \/ GetUsers \/ GetUser \/ UpdateUser \/ DeleteUser

UserSpec == Init /\ [][UserNext]_vars

ItemOps == {"create_item", "get_items", "get_item", "update_item", "delete_item"}
UserOps == {"create_user", "get_users", "get_user", "update_user", "delete_user"}

\* Both resources.  No item handler reads or writes users_db or
\* user_id_counter and no user handler reads or writes items_db or
\* item_id_counter, so a run is explored with the requests of one resource.
ItemRun == req.op \in ItemOps \cup {"none"}
UserRun == req.op \in UserOps \cup {"none"}

Next ==
    \/ ItemRun /\ CreateItem
    \/ ItemRun /\ GetItems
    \/ ItemRun /\ GetItem
    \/ ItemRun /\ UpdateItem
    \/ ItemRun /\ DeleteItem
    \/ UserRun /\ CreateUser
    \/ UserRun /\ GetUsers
    \/ UserRun /\ GetUser
    \/ UserRun /\ UpdateUser
    \/ UserRun /\ DeleteUser

Spec == Init /\ [][Next]_vars

(***************************************************************************)
(* The application under requests in flight together.  Every handler is a  *)
(* coroutine (`async def`) that the event loop of the server runs; the     *)
(* loop runs one coroutine at a time and takes another only when the       *)
(* running one suspends at an `await` or returns.  A task is the call of   *)
(* create_item or create_user for one request whose body passed            *)
(* validation; its pc names the statement it executes next.                *)
(***************************************************************************)

\* variant: the handler awaits between building its dict and storing it
AwaitBeforeStore == {"store"}

\* the statements of create_item and create_user before which the coroutine
\* suspends: neither body holds an `await`
AwaitPoints == {}

\* the task the loop runs after task t moved to statement pc
AfterStep(t, pc) == IF pc \in AwaitPoints \/ pc = "done" THEN 0 ELSE t

\* the first statement of the handler of op
FirstStatement(op) == IF op = "create_user" THEN "scan" ELSE "build"

\* the framework read and validated the body of a POST and scheduled the call
\* of its handler; this is framework code, run by the loop as well
Accept(t, op, body) ==
    /\ loop = 0
    /\ tasks[t].pc = "idle"
    /\ tasks' = [tasks EXCEPT ![t] =
                    [op |-> op, pc |-> FirstStatement(op), body |-> body,
                     data |-> None, resp |-> NoContent,
                     overlapped |-> \E u \in Tasks :
                                       tasks[u].pc \notin {"idle", "done"}]]
    /\ UNCHANGED <<loop, items_db, item_id_counter, users_db, user_id_counter,
                   req, resp, issued, deleted, updates, fresh>>

\* the loop, running nothing, runs (or resumes) the coroutine of task t
Resume(t) ==
    /\ loop = 0
    /\ tasks[t].pc \notin {"idle", "done"}
    /\ loop' = t
    /\ UNCHANGED <<tasks, items_db, item_id_counter, users_db, user_id_counter,
                   req, resp, issued, deleted, updates, fresh>>

\* users.py:37-48, the loop over users_db.values()
Scan(t) ==
    /\ loop = t
    /\ tasks[t].pc = "scan"
    /\ LET conflict == ScanUsers(Values(users_db), 1, UserCreate(tasks[t].body))
           pc == IF conflict # "" THEN "done" ELSE "build"
       IN  /\ tasks' = [tasks EXCEPT
                  ![t].pc = pc,
                  ![t].resp = IF conflict # ""
                              THEN ErrorResponse(HTTP_400_BAD_REQUEST, conflict)
                              ELSE @]
           /\ loop' = AfterStep(t, pc)
    /\ UNCHANGED <<items_db, item_id_counter, users_db, user_id_counter,
                   req, resp, issued, deleted, updates, fresh>>

\* items.py:38-46 / users.py:51-59, the dict literal: it reads the counter
Build(t) ==
    /\ loop = t
    /\ tasks[t].pc = "build"
    /\ \E now \in Times :
         LET item == ItemCreate(tasks[t].body)
             item_data == [id |-> NewItemId,
                           name |-> item.name,
                           description |-> item.description,
                           price |-> item.price,
                           is_available |-> item.is_available,
                           created_at |-> now,
                           updated_at |-> None]
             user == UserCreate(tasks[t].body)
             user_data == [id |-> NewUserId,
                           email |-> user.email,
                           username |-> user.username,
                           full_name |-> user.full_name,
                           is_active |-> Some(TRUE),
                           created_at |-> now,
                           updated_at |-> None]
         IN  tasks' = [tasks EXCEPT
                 ![t].pc = "store",
                 ![t].data = IF tasks[t].op = "create_item"
                             THEN Some(item_data) ELSE Some(user_data)]
    /\ loop' = AfterStep(t, "store")
    /\ UNCHANGED <<items_db, item_id_counter, users_db, user_id_counter,
                   req, resp, issued, deleted, updates, fresh>>

\* items.py:47 / users.py:60, the store under the counter as it is now
Store(t) ==
    /\ loop = t
    /\ tasks[t].pc = "store"
    /\ IF tasks[t].op = "create_item"
       THEN /\ items_db' = Put(items_db, item_id_counter, Val(tasks[t].data))
            /\ UNCHANGED users_db
       ELSE /\ users_db' = Put(users_db, user_id_counter, Val(tasks[t].data))
            /\ UNCHANGED items_db
    /\ tasks' = [tasks EXCEPT ![t].pc = "incr"]
    /\ loop' = AfterStep(t, "incr")
    /\ UNCHANGED <<item_id_counter, user_id_counter,
                   req, resp, issued, deleted, updates, fresh>>

\* items.py:48 / users.py:61, counter += 1
Incr(t) ==
    /\ loop = t
    /\ tasks[t].pc = "incr"
    /\ IF tasks[t].op = "create_item"
       THEN /\ item_id_counter' = item_id_counter + 1
            /\ UNCHANGED user_id_counter
       ELSE /\ user_id_counter' = user_id_counter + 1
            /\ UNCHANGED item_id_counter
    /\ tasks' = [tasks EXCEPT ![t].pc = "return"]
    /\ loop' = AfterStep(t, "return")
    /\ UNCHANGED <<items_db, users_db, req, resp, issued, deleted, updates, fresh>>

\* items.py:50 / users.py:63, the response model built from the dict
Return(t) ==
    /\ loop = t
    /\ tasks[t].pc = "return"
    /\ tasks' = [tasks EXCEPT
           ![t].pc = "done",
           ![t].resp = IF tasks[t].op = "create_item"
                       THEN ReturnItem(HTTP_201_CREATED, Val(tasks[t].data))
                       ELSE ReturnUser(HTTP_201_CREATED, Val(tasks[t].data))]
    /\ loop' = AfterStep(t, "done")
    /\ UNCHANGED <<items_db, item_id_counter, users_db, user_id_counter,
                   req, resp, issued, deleted, updates, fresh>>

AcceptCreateItem == \E t \in Tasks, body \in ItemCreateAccepted : Accept(t, "create_item", body)
AcceptCreateUser == \E t \in Tasks, body \in UserCreateAccepted : Accept(t, "create_user", body)
ResumeTask == \E t \in Tasks : Resume(t)
ScanStep == \E t \in Tasks : Scan(t)
BuildStep == \E t \in Tasks : Build(t)
StoreStep == \E t \in Tasks : Store(t)
IncrStep == \E t \in Tasks : Incr(t)
ReturnStep == \E t \in Tasks : Return(t)

ConcurrentNext ==
    \/ AcceptCreateItem
    \/ AcceptCreateUser
    \/ ResumeTask
    \/ ScanStep
    \/ BuildStep
    \/ StoreStep
    \/ IncrStep
    \/ ReturnStep

ConcurrentSpec == Init /\ [][ConcurrentNext]_vars

(***************************************************************************)
(* Properties.                                                             *)
(***************************************************************************)

\* C1: for each resource type the k-th successful create receives identifier k,
\* whatever deletes, updates, reads and rejected creates happen in between; so
\* no identifier is handed out twice, even after its record was deleted.
C1_SequentialIds ==
    /\ \A k \in 1..Len(issued.items) : issued.items[k] = k
    /\ \A k \in 1..Len(issued.users) : issued.users[k] = k

\* an item create that follows the delete of item 1 returned 2
C1_Witness ==
    /\ req.op = "create_item" /\ resp.status = HTTP_201_CREATED
    /\ 1 \in deleted.items
    /\ Val(resp.record)["id"] = 2
    /\ issued.items = <<1, 2>>

\* the stored users whose username, or whose email, is that of body
SameUsername(db, body) == {i \in 1..Len(db) : db[i].val["username"] = body["username"]}
SameEmail(db, body) == {i \in 1..Len(db) : db[i].val["email"] = body["email"]}

\* C2: a create of a user whose username is that of a stored user (whatever
\* its email), or whose email is that of a stored user, is answered with 400
\* and leaves the users mapping and the user id counter as they were.
C2_DuplicateUserRejected ==
    [][(/\ req'.op = "create_user"
        /\ UserCreateValid(req'.payload)
        /\ SameUsername(users_db, req'.payload) \cup SameEmail(users_db, req'.payload) # {})
       => (/\ resp'.status = HTTP_400_BAD_REQUEST
           /\ users_db' = users_db
           /\ user_id_counter' = user_id_counter)]_vars

\* one user is stored and a create with its username and another email was
\* answered with 400
C2_Witness ==
    /\ req.op = "create_user" /\ resp.status = HTTP_400_BAD_REQUEST
    /\ Len(users_db) = 1
    /\ SameUsername(users_db, req.payload) = {1}
    /\ SameEmail(users_db, req.payload) = {}

\* the price of a body, when it has one
HasPrice(body) == "price" \in DOMAIN body /\ body["price"] # None

\* C3: a create or update answered with a validation failure (422) leaves
\* both mappings and both counters unchanged, and an item create whose price
\* is <= 0 is always answered with 422 and inserts nothing.
C3_ValidationBeforeMutation ==
    [][/\ resp'.status = HTTP_422_UNPROCESSABLE_ENTITY
          => UNCHANGED <<items_db, item_id_counter, users_db, user_id_counter>>
       /\ (/\ req'.op = "create_item"
           /\ HasPrice(req'.payload)
           /\ Val(req'.payload["price"]) <= 0)
          => (/\ resp'.status = HTTP_422_UNPROCESSABLE_ENTITY
              /\ items_db' = items_db)]_vars

\* with an item stored, an item create with price <= 0 was answered with 422
C3_Witness ==
    /\ req.op = "create_item"
    /\ HasPrice(req.payload) /\ Val(req.payload["price"]) <= 0
    /\ resp.status = HTTP_422_UNPROCESSABLE_ENTITY
    /\ Len(items_db) = 1

\* C4: an update whose body the update schema accepts has two outcomes: 200
\* with the updated record when the id has a record, 404 when it has none.
C4_UpdateTwoOutcomes ==
    (req.op = "update_item" /\ ItemUpdateValid(req.payload))
        => \/ resp.status = HTTP_200_OK /\ resp.record # None
           \/ resp.status = HTTP_404_NOT_FOUND /\ ~Has(items_db, req.id)

\* C5: an applied item update changes only the fields its body carries: the
\* fields absent from the body, the id and the creation time keep their
\* values, the other records and the order of the store are untouched, and
\* updated_at of the record is not None afterwards (also for the empty body).
C5_PartialUpdateFrame ==
    [][(/\ req'.op = "update_item"
        /\ ItemUpdateValid(req'.payload)
        /\ Has(items_db, req'.id))
       => (/\ Has(items_db', req'.id)
           /\ LET old == Get(items_db, req'.id)
                  new == Get(items_db', req'.id)
              IN  /\ \A f \in ItemUpdateFields \ DOMAIN req'.payload : new[f] = old[f]
                  /\ new["id"] = old["id"]
                  /\ new["created_at"] = old["created_at"]
                  /\ new["updated_at"] # None
           /\ Len(items_db') = Len(items_db)
           /\ \A i \in 1..Len(items_db) :
                 /\ items_db'[i].key = items_db[i].key
                 /\ items_db[i].key # req'.id => items_db'[i] = items_db[i]
           /\ item_id_counter' = item_id_counter)]_vars

\* of two stored items, one was updated with a body that carries the price
\* only: the response has the new price and the name it was created with
C5_Witness ==
    /\ req.op = "update_item" /\ DOMAIN req.payload = {"price"}
    /\ resp.status = HTTP_200_OK
    /\ Val(resp.record)["price"] = Some(3)
    /\ Val(resp.record)["name"] = Some("b")
    /\ Val(resp.record)["updated_at"] # None
    /\ Len(items_db) = 2

\* C6: get, delete and (with an accepted body) update of an id that has no
\* record are answered with 404 and leave the mapping and the counter as they
\* were; and once an id was deleted every later get of it is answered with 404.
C6_AbsentIsNotFound ==
    [][/\ (/\ \/ req'.op \in {"get_item", "delete_item"}
              \/ req'.op = "update_item" /\ ItemUpdateValid(req'.payload)
           /\ ~Has(items_db, req'.id))
          => (/\ resp'.status = HTTP_404_NOT_FOUND
              /\ items_db' = items_db
              /\ item_id_counter' = item_id_counter)
       /\ (/\ \/ req'.op \in {"get_user", "delete_user"}
              \/ req'.op = "update_user" /\ UserUpdateValid(req'.payload)
           /\ ~Has(users_db, req'.id))
          => (/\ resp'.status = HTTP_404_NOT_FOUND
              /\ users_db' = users_db
              /\ user_id_counter' = user_id_counter)
       /\ (req'.op = "get_item" /\ req'.id \in deleted.items)
          => resp'.status = HTTP_404_NOT_FOUND
       /\ (req'.op = "get_user" /\ req'.id \in deleted.users)
          => resp'.status = HTTP_404_NOT_FOUND]_vars

\* item 1 was deleted, item 2 was created after that, and a get of item 1 was
\* answered with 404
C6_Witness ==
    /\ req.op = "get_item" /\ req.id = 1
    /\ resp.status = HTTP_404_NOT_FOUND
    /\ 1 \in deleted.items
    /\ issued.items = <<1, 2>>
    /\ Has(items_db, 2)

\* C7: a get of an item that was created with an accepted body and not updated
\* since returns name, description, price and is_available of that body
\* (is_available true when the body has none) and updated_at None.
C7_CreateThenGet ==
    (req.op = "get_item" /\ req.id \in DOMAIN fresh.items)
        => /\ resp.status = HTTP_200_OK
           /\ resp.record # None
           /\ LET body == fresh.items[req.id]
                  item == Val(resp.record)
              IN  /\ item["id"] = req.id
                  /\ item["name"] = body["name"]
                  /\ item["description"] =
                        IF "description" \in DOMAIN body THEN body["description"] ELSE None
                  /\ item["price"] = body["price"]
                  /\ item["is_available"] =
                        IF "is_available" \in DOMAIN body THEN body["is_available"]
                        ELSE Some(TRUE)
                  /\ item["updated_at"] = None

\* a get returned an item whose body gave is_available false, and the response
\* has it false
C7_Witness ==
    /\ req.op = "get_item" /\ req.id \in DOMAIN fresh.items
    /\ "is_available" \in DOMAIN fresh.items[req.id]
    /\ resp.status = HTTP_200_OK
    /\ Val(resp.record)["is_available"] = Some(FALSE)
    /\ Val(resp.record)["description"] = Some("d")

CeilDiv(n, k) == (n + k - 1) \div k

RECURSIVE ConcatPages(_, _)
ConcatPages(pages, n) == IF n = 0 THEN <<>> ELSE ConcatPages(pages, n - 1) \o pages[n].records

\* the page sizes the pagination properties are evaluated for
CheckedPageSizes == 1..(MaxCreates + 1) \cup {PAGE_SIZE_MAX}

\* the pages a listing of N records with page size k is evaluated for: the
\* ceil(N/k) pages of the claim and the two after them
CheckedPages(N, k) == 1..(CeilDiv(N, k) + 2)

\* pages[p] is the response for page p with page size k: pages 1..ceil(N/k)
\* are non-empty, report total N and concatenate to all, and the pages after
\* them are empty successes
Paginates(pages, all, k) ==
    LET N == Len(all)
        last == CeilDiv(N, k)
    IN  /\ \A p \in DOMAIN pages :
              /\ pages[p].status = HTTP_200_OK
              /\ pages[p].total = N
              /\ pages[p].records = <<>> <=> p > last
        /\ ConcatPages(pages, last) = all

\* C8: after N creates of items (and nothing else that writes), listing with
\* page size k, 1 <= k <= 100, gives ceil(N/k) non-empty pages that
\* concatenate, in creation order, to the N items, each page with total N; a
\* page after them is an empty success.  The same for users.
C8_PagesPartitionTheStore ==
    /\ (updates.items = 0 /\ deleted.items = {})
        => LET all == [i \in 1..Len(items_db) |-> ItemResponse(items_db[i].val)]
               pages(k) == [p \in CheckedPages(Len(all), k) |->
                               ItemPage(items_db, p, k, FALSE)]
           IN  /\ Len(items_db) = Len(issued.items)
               /\ \A i \in 1..Len(items_db) : all[i]["id"] = issued.items[i]
               /\ \A k \in CheckedPageSizes : Paginates(pages(k), all, k)
    /\ (updates.users = 0 /\ deleted.users = {})
        => LET all == [i \in 1..Len(users_db) |-> UserResponse(users_db[i].val)]
               pages(k) == [p \in CheckedPages(Len(all), k) |-> UserPage(users_db, p, k)]
           IN  /\ Len(users_db) = Len(issued.users)
               /\ \A i \in 1..Len(users_db) : all[i]["id"] = issued.users[i]
               /\ \A k \in CheckedPageSizes : Paginates(pages(k), all, k)

\* two items were created and the second page of size 1 was listed: it holds
\* the second item and reports total 2
C8_Witness ==
    /\ req.op = "get_items" /\ req.page = 2 /\ req.page_size = 1
    /\ ~req.available_only
    /\ updates.items = 0 /\ deleted.items = {} /\ Len(issued.items) = 2
    /\ resp.status = HTTP_200_OK
    /\ resp.total = 2
    /\ Len(resp.records) = 1
    /\ resp.records[1]["id"] = 2

\* the stored items whose availability flag is true, in the order of the store
StoredAvailable ==
    LET available(item) == item["is_available"] = Some(TRUE)
    IN  SelectSeq(Values(items_db), available)

\* elements (page-1)*k+1 .. page*k of all, as far as all has them
PageOf(all, page, k) ==
    LET first == (page - 1) * k
        n == IF Len(all) - first < 0 THEN 0 ELSE Min(k, Len(all) - first)
    IN  [i \in 1..n |-> all[first + i]]

\* C9: an item listing with available_only=true returns the stored items
\* whose availability flag is true, paginated in creation order, with total
\* their number; with available_only=false it returns the stored items, with
\* total the number of stored items.
C9_AvailableOnly ==
    (req.op = "get_items" /\ PageQueryValid(req.page, req.page_size))
        => LET all == IF req.available_only THEN StoredAvailable ELSE Values(items_db)
               page == PageOf(all, req.page, req.page_size)
           IN  /\ resp.status = HTTP_200_OK
               /\ resp.total = Len(all)
               /\ Len(resp.records) = Len(page)
               /\ \A i \in 1..Len(page) :
                     \A f \in ItemResponseFields : resp.records[i][f] = page[i][f]

\* C10: no response to a user request carries a password, in a record or in
\* a listed record, also after an update that supplied one.
C10_NoPasswordInResponse ==
    req.op \in UserOps
        => /\ resp.record # None => "password" \notin DOMAIN Val(resp.record)
           /\ \A i \in 1..Len(resp.records) : "password" \notin DOMAIN resp.records[i]

\* an update supplied a new password, the stored dict holds it, and the
\* response is the record without it
C10_Witness ==
    /\ req.op = "update_user"
    /\ "password" \in DOMAIN req.payload /\ req.payload["password"] = Some("newpassword")
    /\ resp.status = HTTP_200_OK /\ resp.record # None
    /\ "password" \in DOMAIN Get(users_db, req.id)
    /\ Get(users_db, req.id)["password"] = Some("newpassword")

\* the stored users other than user_id whose email is the email of body
OtherHolders(db, user_id, body) ==
    {i \in 1..Len(db) : db[i].key # user_id /\ db[i].val["email"] = body["email"]}

\* C11: email uniqueness is enforced by create only.  An update of a stored
\* user whose body sets the email to the email that another stored user holds
\* is answered 200 with that email and is applied: afterwards the updated user
\* and the other user are both stored with that one email.
C11_UpdateSkipsEmailCheck ==
    [][(/\ req'.op = "update_user"
        /\ UserUpdateValid(req'.payload)
        /\ Has(users_db, req'.id)
        /\ "email" \in DOMAIN req'.payload
        /\ req'.payload["email"] # None
        /\ OtherHolders(users_db, req'.id, req'.payload) # {})
       => /\ resp'.status = HTTP_200_OK
          /\ Val(resp'.record)["email"] = req'.payload["email"]
          /\ Get(users_db', req'.id)["email"] = req'.payload["email"]
          /\ OtherHolders(users_db', req'.id, req'.payload)
                = OtherHolders(users_db, req'.id, req'.payload)]_vars

\* user 1 was created with the email a@x.org and user 2 with b@x.org; the
\* update of user 1 to b@x.org was answered 200 and both are stored with it
C11_Witness ==
    /\ req.op = "update_user" /\ resp.status = HTTP_200_OK
    /\ issued.users = <<1, 2>> /\ req.id = 1
    /\ Has(users_db, 1) /\ Has(users_db, 2)
    /\ Get(users_db, 1)["email"] = Get(users_db, 2)["email"]
    /\ Get(users_db, 1)["email"] = EmailB[1]
    /\ Get(users_db, 1)["username"] # Get(users_db, 2)["username"]

\* the tasks other than t that run the handler t runs
Rivals(t) == {u \in Tasks \ {t} : tasks[u].op = tasks[t].op}

\* the store and the counter of the resource task t creates
StoreOf(t) == IF tasks[t].op = "create_item" THEN items_db ELSE users_db
CounterOf(t) == IF tasks[t].op = "create_item" THEN item_id_counter ELSE user_id_counter

\* C12 as stated: the creates are not synchronized, so while one create has
\* read the counter and not yet stored under it, a create of the same resource
\* type that has not read the counter yet can be run, and reads the same value.
C12_CreatesRace ==
    \A t \in Tasks : \A u \in Rivals(t) :
        (tasks[t].pc = "store" /\ tasks[u].pc \in {"scan", "build"})
            => ENABLED Resume(u)

\* C12: the stores have no lock, but a create handler is a coroutine without a
\* suspension point, so no other handler runs between its read of the counter
\* and its increment.  Whatever requests are in flight together: a task that
\* is past its first statement is the one the loop runs, it holds the current
\* counter value until it has incremented it, no two creates of one resource
\* type hold the same identifier, and the record of every answered create is
\* stored under its identifier, overwritten by no other create.
C12_CreatesRunToCompletion ==
    \A t \in Tasks :
        /\ tasks[t].pc \in {"store", "incr", "return"} => loop = t
        /\ tasks[t].pc \in {"store", "incr"} => Val(tasks[t].data)["id"] = CounterOf(t)
        /\ tasks[t].data # None =>
              \A u \in Rivals(t) :
                  tasks[u].data # None
                      => Val(tasks[u].data)["id"] # Val(tasks[t].data)["id"]
        /\ (tasks[t].pc = "done" /\ tasks[t].resp.status = HTTP_201_CREATED) =>
              /\ Has(StoreOf(t), Val(tasks[t].data)["id"])
              /\ Get(StoreOf(t), Val(tasks[t].data)["id"]) = Val(tasks[t].data)

\* two creates of one resource type were in flight together (the second was
\* accepted while the first was waiting for the loop); both were answered 201
C12_Witness ==
    \E t \in Tasks : \E u \in Rivals(t) :
        /\ tasks[t].overlapped
        /\ tasks[t].pc = "done" /\ tasks[t].resp.status = HTTP_201_CREATED
        /\ tasks[u].pc = "done" /\ tasks[u].resp.status = HTTP_201_CREATED
        /\ {Val(tasks[t].data)["id"], Val(tasks[u].data)["id"]} = {1, 2}

\* the position, in insertion order, of the first stored user that has the
\* username or the email of body
FirstConflict(db, body) ==
    LET S == SameUsername(db, body) \cup SameEmail(db, body)
    IN  CHOOSE i \in S : \A j \in S : i <= j

\* C13: a create of a user that conflicts with stored users is answered with
\* the conflict of the first stored user, in insertion order, that has its
\* username or its email: "Username already exists" when that user has the
\* username (whether or not it has the email too), "Email already exists" when
\* it has the email only, whatever later stored users match.
C13_FirstConflictReported ==
    [][(/\ req'.op = "create_user"
        /\ UserCreateValid(req'.payload)
        /\ SameUsername(users_db, req'.payload) \cup SameEmail(users_db, req'.payload) # {})
       => resp'.detail =
             IF FirstConflict(users_db, req'.payload) \in SameUsername(users_db, req'.payload)
             THEN "Username already exists"
             ELSE "Email already exists"]_vars

\* the username of the body is that of the second stored user only, its email
\* that of the first only, and the answer is "Email already exists"
C13_Witness ==
    /\ req.op = "create_user" /\ resp.status = HTTP_400_BAD_REQUEST
    /\ Len(users_db) = 2
    /\ SameUsername(users_db, req.payload) = {2}
    /\ SameEmail(users_db, req.payload) = {1}
    /\ resp.detail = "Email already exists"

\* C14: every stored item has a name that is not None, a price that is not
\* None and greater than zero, an availability flag that is not None and the
\* id it is stored under; every stored user has an email that is not None; so
\* a get of a stored record and a list are answered 200.
C14_StoredRecordsValid ==
    /\ \A i \in 1..Len(items_db) :
          LET item_data == items_db[i].val
          IN  /\ item_data["name"] # None
              /\ item_data["price"] # None /\ Val(item_data["price"]) > 0
              /\ item_data["is_available"] # None
              /\ item_data["id"] = items_db[i].key
    /\ \A i \in 1..Len(users_db) : users_db[i].val["email"] # None
    /\ (req.op = "get_item" /\ Has(items_db, req.id)) => resp.status = HTTP_200_OK
    /\ (req.op = "get_user" /\ Has(users_db, req.id)) => resp.status = HTTP_200_OK
    /\ (req.op \in {"get_items", "get_users"} /\ PageQueryValid(req.page, req.page_size))
          => resp.status = HTTP_200_OK

\* no two stored users have the same username
UniqueUsernames(db) ==
    \A i, j \in 1..Len(db) : db[i].val["username"] = db[j].val["username"] => i = j

\* C15: with requests handled one at a time, no step leads to a state where
\* two stored users have the same username, and a user that is stored before
\* and after a step has the username, the id and the active flag it had,
\* whatever the body of an update carries.
C15_UsernamesStayUnique ==
    [][/\ UniqueUsernames(users_db')
       /\ \A k \in Ids :
             (Has(users_db, k) /\ Has(users_db', k))
                => /\ Get(users_db', k)["username"] = Get(users_db, k)["username"]
                   /\ Get(users_db', k)["id"] = Get(users_db, k)["id"]
                   /\ Get(users_db', k)["is_active"] = Get(users_db, k)["is_active"]]_vars

\* alice and bob are stored; the update of alice with the body
\* {"username": "bob"} was answered 200 with the username alice
C15_Witness ==
    /\ req.op = "update_user" /\ resp.status = HTTP_200_OK
    /\ "username" \in DOMAIN req.payload
    /\ Len(users_db) = 2
    /\ req.payload["username"] = Get(users_db, 2)["username"]
    /\ req.id = 1
    /\ Val(resp.record)["username"] = Alice[1]
    /\ Get(users_db, 1)["username"] = Alice[1]

====
